---- MODULE Spec2Model ----
(***************************************************************************)
(* The SizeCeph erasure-code plugin (src/erasure-code/sizeceph): the       *)
(* process-wide native binding, the chunk-size arithmetic, encode, decode  *)
(* and minimum_to_decode, modelled call by call.  Under Spec one codec      *)
(* instance exists (ErasureCodeSizeCeph() has run); every action is one    *)
(* complete call made by a host on that instance, and the variables op,    *)
(* args, pre, ret, result, native and restored record what that call did.  *)
(* Under LifecycleSpec threads construct, initialise, use and destroy      *)
(* instances step by step around the binding mutex.                        *)
(***************************************************************************)
EXTENDS Integers, Sequences, FiniteSets, TLC

\* ------------------------------------------------------------------------
\* Program constants (ErasureCodeSizeCeph.h)
\* ------------------------------------------------------------------------
SIZECEPH_K == 4
SIZECEPH_M == 5
SIZECEPH_N == 9
SIZECEPH_ALGORITHM_ALIGNMENT == 4
SIZECEPH_MIN_BLOCK_SIZE == 512

\* ------------------------------------------------------------------------
\* unsigned int: 32 bits, held as two 16-bit limbs [hi, lo]
\* ------------------------------------------------------------------------
LIMB == 256 * 256

\* the unsigned value of int n (a negative n converts modulo 2^32)
U32(n) == [hi |-> (n \div LIMB) % LIMB, lo |-> n % LIMB]

U32IsZero(a) == a.hi = 0 /\ a.lo = 0

\* a + b modulo 2^32
U32Add(a, b) ==
    [hi |-> (a.hi + b.hi + ((a.lo + b.lo) \div LIMB)) % LIMB,
     lo |-> (a.lo + b.lo) % LIMB]

\* a * m modulo 2^32, for a small m
U32Mul(a, m) ==
    [hi |-> (a.hi * m + ((a.lo * m) \div LIMB)) % LIMB,
     lo |-> (a.lo * m) % LIMB]

\* a % d as an integer, for a small d
U32Mod(a, d) == ((a.hi % d) * (LIMB % d) + (a.lo % d)) % d

\* a / d, for a small d
U32Div(a, d) ==
    [hi |-> a.hi \div d,
     lo |-> ((a.hi % d) * LIMB + a.lo) \div d]

\* a as an integer, when it is below 2^31
U32Int(a) == a.hi * LIMB + a.lo

\* a fits the model's integers
U32Small(a) == a.hi < 32768

\* ------------------------------------------------------------------------
\* Bounds of the model
\* ------------------------------------------------------------------------
\* largest shard id a caller places in a shard_id_set (ids >= SIZECEPH_N are invalid)
MaxShardId == 9
\* longest input handed to encode, in bytes
MaxLen == 17

\* the ids [0, N)
AllShards == 0 .. (SIZECEPH_N - 1)

\* the ids [0, K)
DataShards == 0 .. (SIZECEPH_K - 1)

ShardIds == 0 .. MaxShardId

\* first bytes of the test data (0x42 is create_test_data's default, 0xFE
\* makes the byte counter wrap)
Patterns == {66, 254}

\* create_test_data(size, pattern): bp[i] = pattern + (i % 256), an unsigned char
create_test_data(size, pattern) ==
    [i \in 1 .. size |-> (pattern + ((i - 1) % 256)) % 256]

\* the inputs handed to encode
Inputs == { create_test_data(n, p) : n \in 0 .. MaxLen, p \in Patterns }

\* a shard map with no entry
EmptyMap == [i \in {} |-> <<>>]

\* an output map a caller has used before: non-empty buffers under a data
\* and a parity id
StaleMap == [i \in {1, 6} |-> <<7, 7>>]

\* the buffer a caller supplies under an id outside [0, N)
ExtraChunk == <<1>>

\* n zero bytes (ceph::buffer::create + memset 0)
Zeros(n) == [i \in 1 .. n |-> 0]

\* the smallest element of a non-empty set of ids (map.begin())
MinOf(S) == CHOOSE x \in S : \A y \in S : x <= y

\* ------------------------------------------------------------------------
\* Alignment arithmetic
\* ------------------------------------------------------------------------
get_alignment == SIZECEPH_ALGORITHM_ALIGNMENT

\* include/intarith.h round_up_to on unsigned: (n % d ? (n + d - n % d) : n)
round_up_to(n, d) ==
    IF U32Mod(n, d) # 0 THEN U32Add(n, U32(d - U32Mod(n, d))) ELSE n

\* get_chunk_size(stripe_width), unsigned in and out
get_chunk_size(stripe_width) ==
    LET alignment     == get_alignment
        k_alignment   == SIZECEPH_K * alignment
        padded_length == round_up_to(stripe_width, k_alignment)
        chunk_size    == U32Div(padded_length, SIZECEPH_K)
    IN  chunk_size

\* ------------------------------------------------------------------------
\* The native library (sizeceph.so), by its ABI contract
\* ------------------------------------------------------------------------
Symbols == {"size_split", "size_restore", "size_can_get_restore_fn"}

\* what dlopen and dlsym find on this host: the library with its three
\* symbols, no library at all, or a library exporting only size_split
LibEnvs ==
    { [lib |-> TRUE,  syms |-> Symbols],
      [lib |-> FALSE, syms |-> {}],
      [lib |-> TRUE,  syms |-> {"size_split"}] }

\* size_split(pp_dst, p_src, len): len / 4 bytes into each of the 9 outputs.
\* Shard s < 4 carries byte s of every 4-byte block, transformed; shards
\* 4..8 carry a checksum of the block.
NativeSplit(src) ==
    [s \in AllShards |->
        [j \in 1 .. (Len(src) \div SIZECEPH_ALGORITHM_ALIGNMENT) |->
            LET b == SIZECEPH_ALGORITHM_ALIGNMENT * (j - 1)
            IN  IF s < SIZECEPH_K
                THEN (src[b + s + 1] + s + 1) % 256
                ELSE (src[b + 1] + src[b + 2] + src[b + 3] + src[b + 4] + s) % 256]]

\* the byte found past the end of a buffer
JunkByte(fault) == IF fault = "junkFF" THEN 255 ELSE 0

\* the byte size_restore reads at offset j of shard s: past the end of the
\* caller's buffer it reads whatever lies there
ShardByte(chunks, s, j, fault) ==
    IF j <= Len(chunks[s]) THEN chunks[s][j] ELSE JunkByte(fault)

\* size_restore(p_dst, pp_src, len): the inverse of size_split, len bytes
NativeRestore(chunks, len, fault) ==
    [i \in 1 .. len |->
        LET s == (i - 1) % SIZECEPH_ALGORITHM_ALIGNMENT
            j == ((i - 1) \div SIZECEPH_ALGORITHM_ALIGNMENT) + 1
        IN  (ShardByte(chunks, s, j, fault) + 256 - (s + 1)) % 256]

\* ------------------------------------------------------------------------
\* State
\* ------------------------------------------------------------------------
VARIABLES
    libEnv,                     \* what dlopen / dlsym find (environment)
    sizeceph_handle,            \* static void* : TRUE when non-null
    library_loaded,             \* static bool
    library_ref_count,          \* static int
    size_split_func,            \* static function pointers: TRUE when non-null
    size_restore_func,
    size_can_get_restore_func,
    encoded,                    \* the caller's encode output map
    original,                   \* the input whose encode filled `encoded`
    decoded,                    \* the caller's decode output map
    op,                         \* the last call: its name,
    args,                       \*   its arguments,
    pre,                        \*   its output map on entry,
    ret,                        \*   its status,
    result,                     \*   its returned value,
    native,                     \*   the native functions it invoked, in order,
    restored,                   \*   and the buffer size_restore filled
    instances,                  \* the codec objects: unborn, live, ...
    profile,                    \* each object's ErasureCodeProfile member
    library_mutex,              \* the thread holding the static mutex, or "none"
    pc                          \* each thread's position in the call it makes

vars == << libEnv, sizeceph_handle, library_loaded, library_ref_count,
           size_split_func, size_restore_func, size_can_get_restore_func,
           encoded, original, decoded, op, args, pre, ret, result, native,
           restored, instances, profile, library_mutex, pc >>

\* the objects and threads, untouched by a call made under Spec
lifecycleVars == << instances, profile, library_mutex, pc >>

\* the caller's buffers and the call record of Spec
callVars == << encoded, original, decoded, op, args, pre, ret, result, native,
               restored >>

bindingVars == << sizeceph_handle, library_loaded, library_ref_count,
                  size_split_func, size_restore_func, size_can_get_restore_func >>

\* the static members as one value
Binding ==
    [ handle    |-> sizeceph_handle,
      loaded    |-> library_loaded,
      ref_count |-> library_ref_count,
      split     |-> size_split_func,
      restore   |-> size_restore_func,
      can       |-> size_can_get_restore_func ]

\* ------------------------------------------------------------------------
\* Native binding
\* ------------------------------------------------------------------------
\* load_sizeceph_library() on binding b: [ok, bind]
load_sizeceph_library(b, env) ==
    IF b.loaded
    THEN [ok |-> TRUE, bind |-> b]
    ELSE IF ~env.lib
    THEN [ok |-> FALSE, bind |-> [b EXCEPT !.handle = FALSE]]
    ELSE LET resolved == [b EXCEPT !.handle  = TRUE,
                                   !.split   = "size_split" \in env.syms,
                                   !.restore = "size_restore" \in env.syms,
                                   !.can     = "size_can_get_restore_fn" \in env.syms]
         IN  IF ~resolved.split \/ ~resolved.restore \/ ~resolved.can
             THEN [ok |-> FALSE, bind |-> [resolved EXCEPT !.handle = FALSE]]
             ELSE [ok |-> TRUE,  bind |-> [resolved EXCEPT !.loaded = TRUE]]

\* the static members take the values of binding b
SetBinding(b) ==
    /\ sizeceph_handle' = b.handle
    /\ library_loaded' = b.loaded
    /\ library_ref_count' = b.ref_count
    /\ size_split_func' = b.split
    /\ size_restore_func' = b.restore
    /\ size_can_get_restore_func' = b.can

\* ------------------------------------------------------------------------
\* encode
\* ------------------------------------------------------------------------
\* mutant: only the number of wanted shards is checked
want_all_shards_size_only(want_to_encode) ==
    Cardinality(want_to_encode) = SIZECEPH_N

\* encode's check of want_to_encode: 9 entries, every id in [0, 9)
want_all_shards(want_to_encode) ==
    /\ Cardinality(want_to_encode) = SIZECEPH_N
    /\ \A shard \in want_to_encode : ~(shard < 0 \/ shard >= SIZECEPH_N)

\* mutant: the alignment of the input is not checked
input_aligned_unchecked(in) == TRUE

\* encode's check of the input length against get_alignment()
input_aligned(in) ==
    LET required_alignment == get_alignment
    IN  Len(in) % required_alignment = 0

\* mutant: the consistency assertion is compiled out
chunk_sizes_agree_unasserted(expected_chunk_size, algorithm_chunk_size) == TRUE

\* ceph_assert(expected_chunk_size == algorithm_chunk_size)
chunk_sizes_agree(expected_chunk_size, algorithm_chunk_size) ==
    expected_chunk_size = algorithm_chunk_size

\* the bytes of a buffer from ceph::buffer::create(n) before anything is
\* written to it: whatever the allocator left there
Uninitialised(n) == [i \in 1 .. n |-> 170]

\* the map after `(*encoded)[wanted_shard].append(chunk_buffer)` for every
\* wanted shard: a fresh buffer of chunk_size bytes after what the entry held
AppendChunks(out, want, chunk_size) ==
    [i \in (DOMAIN out) \cup want |->
        IF i \in want
        THEN (IF i \in DOMAIN out THEN out[i] ELSE <<>>) \o Uninitialised(chunk_size)
        ELSE out[i]]

\* mutant: the output buffers are not zeroed
zero_out_skipped(appended, shards, chunk_size) == appended

\* `memset((*encoded)[wanted_shard].c_str(), 0, chunk_size)` for the wanted
\* shards `shards`
zero_out(appended, shards, chunk_size) ==
    [i \in DOMAIN appended |->
        IF i \in shards
        THEN [j \in 1 .. Len(appended[i]) |->
                 IF j <= chunk_size THEN 0 ELSE appended[i][j]]
        ELSE appended[i]]

\* mutant: the empty-input branch returns without storing anything
AssignEmpty_nothing(out, want) == out

\* the map after `(*encoded)[shard] = ceph::bufferlist()` for every wanted shard
AssignEmpty(out, want) ==
    [i \in (DOMAIN out) \cup want |-> IF i \in want THEN <<>> ELSE out[i]]

\* a bufferlist that held bytes before the append has more than one segment:
\* c_str() rebuilds it into a new buffer, whose pointer differs from the one
\* kept in output_ptrs
PointerMismatch(appended, want, chunk_size) ==
    \E s \in want : Len(appended[s]) # chunk_size

\* buffer `buf` after the native code wrote `data` at its start
Written(buf, data) ==
    [j \in 1 .. Len(buf) |-> IF j <= Len(data) THEN data[j] ELSE buf[j]]

\* encode(want_to_encode, in, encoded) on output map `out`: [ret, out, native, bind]
encode(want_to_encode, in, out, b, env) ==
    LET ld == load_sizeceph_library(b, env)
        Fail(status) == [ret |-> status, out |-> out, native |-> <<>>, bind |-> ld.bind]
    IN
    IF ~ld.ok THEN Fail("ENOENT")
    ELSE IF ~want_all_shards(want_to_encode) THEN Fail("EINVAL")
    ELSE IF Len(in) = 0
    THEN [ret |-> "OK", out |-> AssignEmpty(out, want_to_encode),
          native |-> <<>>, bind |-> ld.bind]
    ELSE IF ~input_aligned(in) THEN Fail("EINVAL")
    ELSE
    LET input_length         == Len(in)
        expected_chunk_size  == U32Int(get_chunk_size(U32(input_length)))
        algorithm_chunk_size == input_length \div get_alignment
        chunk_size           == expected_chunk_size
        appended             == AppendChunks(out, want_to_encode, chunk_size)
        mismatching          == { s \in want_to_encode :
                                     PointerMismatch(appended, {s}, chunk_size) }
        zeroed               == zero_out(appended, want_to_encode, chunk_size)
        contiguous_input     == in
        shards               == NativeSplit(contiguous_input)
    IN
    IF ~chunk_sizes_agree(expected_chunk_size, algorithm_chunk_size) THEN Fail("ABORT")
    \* ceph_assert(false): output buffer pointer mismatch, at the first such
    \* shard of the zeroing loop
    ELSE IF PointerMismatch(appended, want_to_encode, chunk_size)
    THEN [ret |-> "ABORT",
          out |-> zero_out(appended,
                           { s \in want_to_encode : s <= MinOf(mismatching) },
                           chunk_size),
          native |-> <<>>, bind |-> ld.bind]
    ELSE [ret |-> "OK",
          out |-> [i \in DOMAIN zeroed |->
                      IF i \in want_to_encode /\ i \in AllShards
                      THEN Written(zeroed[i], shards[i])
                      ELSE zeroed[i]],
          native |-> << [fn |-> "size_split", len |-> U32(input_length), rc |-> 0,
                         src |-> contiguous_input,
                         out |-> [i \in want_to_encode |-> zeroed[i]]] >>,
          bind |-> ld.bind]

\* ------------------------------------------------------------------------
\* decode
\* ------------------------------------------------------------------------
\* want_to_read in iteration order: ascending shard id
RECURSIVE InOrder(_)
InOrder(S) ==
    IF S = {} THEN <<>> ELSE << MinOf(S) >> \o InOrder(S \ {MinOf(S)})

\* mutant: every data shard, the last one too, gets original_data_per_chunk
\* bytes counted from the shard after it
decoded_chunk_shifted(shard_id, restored_data, original_data_size) ==
    IF shard_id < SIZECEPH_K
    THEN LET original_data_per_chunk == original_data_size \div SIZECEPH_K
             start_offset == ((shard_id + 1) % SIZECEPH_K) * original_data_per_chunk
         IN  SubSeq(restored_data, start_offset + 1,
                    start_offset + original_data_per_chunk)
    ELSE <<>>

\* what decode's loop stores for one wanted shard: a slice of the restored
\* original for a data shard, an empty buffer for a parity shard
decoded_chunk(shard_id, restored_data, original_data_size) ==
    IF shard_id < SIZECEPH_K
    THEN LET original_data_per_chunk == original_data_size \div SIZECEPH_K
             start_offset == shard_id * original_data_per_chunk
             length == IF shard_id = SIZECEPH_K - 1
                       THEN original_data_size - start_offset
                       ELSE original_data_per_chunk
         IN  SubSeq(restored_data, start_offset + 1, start_offset + length)
    ELSE <<>>

\* the "Handle chunk requests" loop over order[k..]: [ret, out]
RECURSIVE handle_requests(_, _, _, _, _)
handle_requests(order, k, out, restored_data, original_data_size) ==
    IF k > Len(order) THEN [ret |-> "OK", out |-> out]
    ELSE IF order[k] >= SIZECEPH_N THEN [ret |-> "EINVAL", out |-> out]
    ELSE handle_requests(order, k + 1,
            [i \in (DOMAIN out) \cup {order[k]} |->
                IF i = order[k]
                THEN decoded_chunk(order[k], restored_data, original_data_size)
                ELSE out[i]],
            restored_data, original_data_size)

\* mutant: the relaxed precondition, "K or more" chunks
all_chunks_present_k_or_more(chunks) ==
    ~(Cardinality(DOMAIN chunks) < SIZECEPH_K)

\* decode's check that every one of the 9 chunks was supplied
all_chunks_present(chunks) ==
    /\ ~(Cardinality(DOMAIN chunks) < SIZECEPH_N)
    /\ \A i \in AllShards : i \in DOMAIN chunks

\* mutant: the validator's answer is ignored
restorable_unchecked(can_rc) == TRUE

\* `if (!size_can_get_restore_func(...)) return -ENOTSUP`
restorable(can_rc) == can_rc # 0

\* decode(want_to_read, chunks, decoded, chunk_size) on output map `out`.
\* `answers` is what the native library answers.
\* [ret, out, native, restored, bind]
decode(want_to_read, chunks, out, chunk_size, b, env, answers) ==
    LET ld == load_sizeceph_library(b, env)
        can_rc == answers.can
        restore_rc == answers.rc
        fault == answers.fault
        Fail(status, calls) ==
            [ret |-> status, out |-> out, native |-> calls, restored |-> <<>>,
             bind |-> ld.bind]
    IN
    IF ~ld.ok THEN Fail("ENOENT", <<>>)
    ELSE IF ~all_chunks_present(chunks) THEN Fail("ENOENT", <<>>)
    ELSE
    LET \* unsigned int effective_chunk_size = chunk_size;
        converted == U32(chunk_size)
        \* `effective_chunk_size <= 0` on an unsigned is `== 0`
        effective_chunk_size ==
            IF U32IsZero(converted) /\ DOMAIN chunks # {}
            THEN U32(Len(chunks[MinOf(DOMAIN chunks)]))
            ELSE converted
    IN
    IF U32IsZero(effective_chunk_size) THEN Fail("EINVAL", <<>>)
    ELSE
    LET can_call == [fn |-> "size_can_get_restore_fn", len |-> 0, rc |-> can_rc] IN
    IF ~restorable(can_rc) THEN Fail("ENOTSUP", << can_call >>)
    ELSE
    LET original_data_size == U32Mul(effective_chunk_size, get_alignment)
        \* size_restore reads original_data_size / 4 bytes of every shard
        read_per_shard == U32Div(original_data_size, SIZECEPH_ALGORITHM_ALIGNMENT)
        overread ==
            \/ ~U32Small(read_per_shard)
            \/ \E i \in AllShards : Len(chunks[i]) < U32Int(read_per_shard)
        \* a read running further past the buffers than any mapped memory does
        far_overread ==
            \/ ~U32Small(read_per_shard)
            \/ U32Int(read_per_shard) > MaxLen
        restore_call ==
            [fn |-> "size_restore", len |-> original_data_size, rc |-> restore_rc]
        \* the call that never returned
        restore_fault == [fn |-> "size_restore", len |-> original_data_size]
    IN
    IF far_overread \/ (overread /\ fault = "SEGV")
    THEN Fail("SEGV", << can_call, restore_fault >>)
    ELSE
    LET size == U32Int(original_data_size)
        restored_data == NativeRestore(chunks, size, fault)
        served == handle_requests(InOrder(want_to_read), 1, out, restored_data, size)
    IN
    IF restore_rc # 0
    THEN [ret |-> "EIO", out |-> out,
          native |-> << can_call, restore_call >>,
          restored |-> restored_data, bind |-> ld.bind]
    ELSE [ret |-> served.ret, out |-> served.out,
          native |-> << can_call, restore_call >>,
          restored |-> restored_data, bind |-> ld.bind]

\* ------------------------------------------------------------------------
\* minimum_to_decode
\* ------------------------------------------------------------------------
\* mutant: only the number of available shards is checked
minimum_to_decode_size_only(want_to_read, available, minimum_set) ==
    IF Cardinality(available) < SIZECEPH_N
    THEN [ret |-> "EIO", minimum |-> minimum_set]
    ELSE [ret |-> "OK", minimum |-> available]

\* minimum_to_decode(want_to_read, available, minimum_set, nullptr): [ret, minimum]
minimum_to_decode(want_to_read, available, minimum_set) ==
    IF Cardinality(available) < SIZECEPH_N
    THEN [ret |-> "EIO", minimum |-> minimum_set]
    ELSE IF \E i \in AllShards : i \notin available
    THEN [ret |-> "EIO", minimum |-> minimum_set]
    ELSE [ret |-> "OK", minimum |-> available]

\* minimum_to_decode_with_cost(want_to_read, available, minimum): the keys of
\* the cost map are the available set
minimum_to_decode_with_cost(want_to_read, available, minimum) ==
    LET available_set == { id \in DOMAIN available : TRUE }
    IN  minimum_to_decode(want_to_read, available_set, minimum)

\* ------------------------------------------------------------------------
\* Deprecated integer-keyed signatures
\* ------------------------------------------------------------------------
\* shard_id_t(i): the id is held in an int8_t
shard_id_t(i) == ((i + 128) % 256) - 128

\* `for (int i : s) set.insert(shard_id_t(i))`
to_shard_id_set(s) == { shard_id_t(i) : i \in s }

\* `for (pair : m) map[shard_id_t(pair.first)] = pair.second`, in key order
to_shard_id_map(m) ==
    [id \in to_shard_id_set(DOMAIN m) |->
        LET keys == { i \in DOMAIN m : shard_id_t(i) = id }
        IN  m[CHOOSE i \in keys : \A j \in keys : j <= i]]

\* `for (pair : m) (*out)[pair.first.id] = pair.second`
to_int_map(m) == [i \in DOMAIN m |-> m[i]]

\* get_sub_chunk_count()
get_sub_chunk_count == 1

\* mutant: the result is copied into the caller's container without clear()
legacy_result_unclear(status, converted, out) ==
    IF status = "OK"
    THEN [i \in (DOMAIN out) \cup (DOMAIN converted) |->
             IF i \in DOMAIN converted THEN converted[i] ELSE out[i]]
    ELSE out

\* `if (ret == 0 && out) { out->clear(); for (...) (*out)[id] = ...; }`
legacy_result(status, converted, out) ==
    IF status = "OK" THEN to_int_map(converted) ELSE out

\* minimum_to_decode(std::set<int>, std::set<int>, std::map<int, vector<pair>>*)
minimum_to_decode_legacy(want_to_read, available, minimum) ==
    LET want_set      == to_shard_id_set(want_to_read)
        available_set == to_shard_id_set(available)
        r == minimum_to_decode(want_set, available_set, {})
        chunk_ranges == << << 0, get_sub_chunk_count >> >>
    IN  [ret |-> r.ret,
         minimum |-> legacy_result(r.ret, [id \in r.minimum |-> chunk_ranges],
                                   minimum)]

\* minimum_to_decode_with_cost(std::set<int>, std::map<int, int>, std::set<int>*)
minimum_to_decode_with_cost_legacy(want_to_read, available, minimum) ==
    LET want_set      == to_shard_id_set(want_to_read)
        available_map == to_shard_id_map(available)
        r == minimum_to_decode_with_cost(want_set, available_map, {})
    IN  [ret |-> r.ret,
         minimum |-> IF r.ret = "OK" THEN { id : id \in r.minimum } ELSE minimum]

\* encode(std::set<int>, bufferlist, std::map<int, bufferlist>*)
encode_legacy(want_to_encode, in, out, b, env) ==
    LET want_set == to_shard_id_set(want_to_encode)
        r == encode(want_set, in, EmptyMap, b, env)
    IN  [ret |-> r.ret, out |-> legacy_result(r.ret, r.out, out),
         native |-> r.native, bind |-> r.bind]

\* decode(std::set<int>, std::map<int, bufferlist>, std::map<int, bufferlist>*, int)
decode_legacy(want_to_read, chunks, out, chunk_size, b, env, answers) ==
    LET want_set   == to_shard_id_set(want_to_read)
        chunks_map == to_shard_id_map(chunks)
        r == decode(want_set, chunks_map, EmptyMap, chunk_size, b, env, answers)
    IN  [ret |-> r.ret, out |-> legacy_result(r.ret, r.out, out),
         native |-> r.native, restored |-> r.restored, bind |-> r.bind]

\* mutant: the shards are appended from the last requested to the first
RECURSIVE concat_requested_reversed(_, _, _)
concat_requested_reversed(order, decoded_map, chunk_size) ==
    IF order = <<>> THEN <<>>
    ELSE concat_requested_reversed(Tail(order), decoded_map, chunk_size)
            \o (IF shard_id_t(Head(order)) \in DOMAIN decoded_map
                THEN decoded_map[shard_id_t(Head(order))]
                ELSE Zeros(chunk_size))

\* decode_concat's loop `for (int shard_id : want_to_read)`: the decoded
\* buffer of each requested shard, or chunk_size zero bytes when it has none
RECURSIVE concat_requested(_, _, _)
concat_requested(order, decoded_map, chunk_size) ==
    IF order = <<>> THEN <<>>
    ELSE (IF shard_id_t(Head(order)) \in DOMAIN decoded_map
          THEN decoded_map[shard_id_t(Head(order))]
          ELSE Zeros(chunk_size))
            \o concat_requested(Tail(order), decoded_map, chunk_size)

\* the chunk size decode_concat passes on: the length of the first chunk
concat_chunk_size(chunks) ==
    IF DOMAIN chunks = {} THEN 0 ELSE Len(chunks[MinOf(DOMAIN chunks)])

\* decode_concat(std::set<int>, std::map<int, bufferlist>, bufferlist*) on
\* the caller's buffer `out`
decode_concat(want_to_read, chunks, out, b, env, answers) ==
    LET want_set   == to_shard_id_set(want_to_read)
        chunks_map == to_shard_id_map(chunks)
        chunk_size == concat_chunk_size(chunks)
        r == decode(want_set, chunks_map, EmptyMap, chunk_size, b, env, answers)
    IN  [ret |-> r.ret,
         out |-> IF r.ret = "OK"
                 THEN concat_requested(InOrder(want_to_read), r.out, chunk_size)
                 ELSE out,
         native |-> r.native, restored |-> r.restored, bind |-> r.bind]

\* ------------------------------------------------------------------------
\* Unsupported operations
\* ------------------------------------------------------------------------
\* encode_chunks(in, out) and encode_chunks(want_to_encode, encoded)
encode_chunks(in, out) == [ret |-> "ENOTSUP", in |-> in, out |-> out]

\* decode_chunks(want_to_read, in, out) and decode_chunks(want_to_read, chunks, decoded)
decode_chunks(want_to_read, in, out) == [ret |-> "ENOTSUP", in |-> in, out |-> out]

\* mutant: the delta is the new data
encode_delta_new_data(old_data, new_data, delta_maybe_in_place) == new_data

\* encode_delta: `*delta_maybe_in_place = ceph::bufferptr()`
encode_delta(old_data, new_data, delta_maybe_in_place) == <<>>

\* apply_delta: `out.clear()`
apply_delta(in, out) == EmptyMap

\* ------------------------------------------------------------------------
\* Codec objects, their profile, and the threads using them
\* ------------------------------------------------------------------------
\* the codec objects a process creates, and its threads
Instances == {"a", "b"}

Threads == {"t1", "t2"}

\* a profile with no entry
NoProfile == [x \in {} |-> ""]

\* std::to_string
to_string(n) == ToString(n)

\* std::stoi on the decimal strings the profiles hold
stoi(str) == CHOOSE n \in 0 .. 9 : to_string(n) = str

\* the profile the constructor installs
DefaultProfile ==
    [k |-> to_string(SIZECEPH_K), m |-> to_string(SIZECEPH_M),
     technique |-> "sizeceph"]

\* the profiles handed to init: the standard one, a wrong k, and
\* force_all_chunks with its legacy shape, with a wrong m and with a k alone
ProfileArgs ==
    { [k |-> "4", m |-> "5"],
      [k |-> "5"],
      [force_all_chunks |-> "true", k |-> "9", m |-> "0"],
      [force_all_chunks |-> "true", k |-> "9", m |-> "1"],
      [force_all_chunks |-> "true", k |-> "5"] }

\* init's validation of the (already stored) profile: TRUE when it passes
profile_valid(prof) ==
    LET force_all_chunks ==
            "force_all_chunks" \in DOMAIN prof /\ prof["force_all_chunks"] = "true"
        has_k == "k" \in DOMAIN prof
        has_m == "m" \in DOMAIN prof
    IN  IF force_all_chunks
        THEN (has_k /\ has_m)
                => LET k_val == stoi(prof["k"])
                       m_val == stoi(prof["m"])
                   IN  (k_val = 9 /\ m_val = 0)
                          \/ (k_val = SIZECEPH_K /\ m_val = SIZECEPH_M)
        ELSE /\ ~(has_k /\ stoi(prof["k"]) # SIZECEPH_K)
             /\ ~(has_m /\ stoi(prof["m"]) # SIZECEPH_M)

\* the static members before any object exists
NoBinding ==
    [ handle |-> FALSE, loaded |-> FALSE, ref_count |-> 0,
      split |-> FALSE, restore |-> FALSE, can |-> FALSE ]

\* a thread between calls
IdleThread ==
    [ at |-> "idle", fn |-> "none", inst |-> "none", ret |-> "OK",
      alone |-> FALSE, pre |-> [profile |-> NoProfile, bind |-> NoBinding] ]

\* the profile asks for force_all_chunks
force_all_chunks(prof) ==
    "force_all_chunks" \in DOMAIN prof /\ prof["force_all_chunks"] = "true"

\* init(profile_arg) on an object, as one call: [ret, profile, bind]
init(profile_arg, b, env) ==
    IF ~profile_valid(profile_arg)
    THEN [ret |-> "EINVAL", profile |-> profile_arg, bind |-> b]
    ELSE LET ld == load_sizeceph_library(b, env)
         IN  [ret |-> IF ld.ok THEN "OK" ELSE "ENOENT",
              profile |-> profile_arg, bind |-> ld.bind]

\* get_chunk_count() of an object whose profile is prof
get_chunk_count(prof) == SIZECEPH_N

\* mutant: in force_all_chunks mode all 9 chunks are reported as data
get_data_chunk_count_all_as_data(prof) ==
    IF force_all_chunks(prof) THEN SIZECEPH_N ELSE SIZECEPH_K

\* get_data_chunk_count() of an object whose profile is prof
get_data_chunk_count(prof) == SIZECEPH_K

\* get_coding_chunk_count() of an object whose profile is prof
get_coding_chunk_count(prof) == SIZECEPH_M

\* decode_concat(std::map<int, bufferlist>, bufferlist*) of an object whose
\* profile is prof: the shards below data_chunk_limit are requested
decode_concat_chunks(prof, chunks, out, b, env, answers) ==
    LET data_chunk_limit == IF force_all_chunks(prof) THEN SIZECEPH_N ELSE SIZECEPH_K
        want_to_read == 0 .. (data_chunk_limit - 1)
    IN  decode_concat(want_to_read, chunks, out, b, env, answers)

\* the profiles a host initialises its codec with
InitProfiles ==
    { [k |-> "4", m |-> "5"],
      [force_all_chunks |-> "true", k |-> "9", m |-> "0"],
      [force_all_chunks |-> "true", k |-> "4", m |-> "5"] }

\* ------------------------------------------------------------------------
\* The host's calls
\* ------------------------------------------------------------------------
\* no call is in progress and the process is alive
Idle == op = "none"

\* the sets of ids a caller asks encode for
WantToEncodeSets ==
    { S \in SUBSET ShardIds : Cardinality(S) >= SIZECEPH_N }
        \cup { {}, {0, 1}, {0, 2, 5}, DataShards, AllShards \ {4}, {MaxShardId} }

\* the sets of ids a caller asks decode and minimum_to_decode for
WantToReadSets ==
    { {}, {0}, {3}, {4}, {MaxShardId}, {0, 1}, DataShards, AllShards, ShardIds,
      {3, MaxShardId}, {0, 4, SIZECEPH_N} }

\* the sets of shards a caller has at hand
AvailableSets ==
    { S \in SUBSET ShardIds : Cardinality(S) >= SIZECEPH_N }
        \cup { AllShards \ {i} : i \in {0, 4, 8} }
        \cup { {}, {0, 1, 4} }

\* the chunk_size arguments of decode: negative, zero (infer), short, the
\* sizes encode produces, one that overflows 4 * chunk_size
ChunkSizeArgs == {-1, 0, 1, 4, 8, 1073741824}

\* what the native library answers during one decode: can is what
\* size_can_get_restore_fn returns, rc what size_restore returns, fault what a
\* read past the end of a shard buffer leads to (a fault, or junk bytes read)
NativeAnswers ==
    { [can |-> 1, rc |-> 0,  fault |-> "SEGV"],
      [can |-> 1, rc |-> 0,  fault |-> "junk00"],
      [can |-> 1, rc |-> 0,  fault |-> "junkFF"],
      [can |-> 1, rc |-> -1, fault |-> "junk00"],
      [can |-> 0, rc |-> 0,  fault |-> "junk00"] }

\* the stripe widths asked of get_chunk_size: small ones, the tests' and the
\* top of the unsigned range
StripeWidths ==
    { U32(n) : n \in 0 .. MaxLen }
        \cup { U32(512), U32(1000), U32(1024) }
        \cup { U32(0 - n) : n \in 1 .. MaxLen }

\* the per-shard read costs of minimum_to_decode_with_cost
CostMaps(S) == { [i \in S |-> 1], [i \in S |-> 1 + i] }

\* A host calls encode; `reuse`: with the map it used last, else a fresh one.
Encode(want, in, reuse) ==
    /\ Idle
    /\ LET before == IF reuse THEN encoded ELSE EmptyMap
           r      == encode(want, in, before, Binding, libEnv)
       IN  /\ op' = "encode"
           /\ args' = [want |-> want, in |-> in]
           /\ pre' = before
           /\ ret' = r.ret
           /\ result' = 0
           /\ native' = r.native
           /\ restored' = <<>>
           /\ encoded' = r.out
           /\ original' = IF r.ret = "OK" THEN in ELSE original
           /\ decoded' = decoded
           /\ SetBinding(r.bind)
    /\ UNCHANGED << libEnv, lifecycleVars >>

\* the chunks map a host builds from the shards it kept (keys below N) and
\* buffers of its own (keys from N up)
ChunksOf(keys) ==
    [i \in { k \in keys : k \in DOMAIN encoded \/ k >= SIZECEPH_N } |->
        IF i \in DOMAIN encoded THEN encoded[i] ELSE ExtraChunk]

\* A host calls decode on the shards `keys`; `stale`: into a map it used
\* before, else into a fresh one.
Decode(want, keys, chunk_size, stale, answers) ==
    /\ Idle
    /\ LET before == IF stale THEN StaleMap ELSE EmptyMap
           chunks == ChunksOf(keys)
           r      == decode(want, chunks, before, chunk_size, Binding, libEnv,
                            answers)
       IN  /\ op' = "decode"
           /\ args' = [want |-> want, chunks |-> chunks, chunk_size |-> chunk_size]
           /\ pre' = before
           /\ ret' = r.ret
           /\ result' = 0
           /\ native' = r.native
           /\ restored' = r.restored
           /\ decoded' = r.out
           /\ SetBinding(r.bind)
    /\ UNCHANGED << libEnv, encoded, original, lifecycleVars >>

\* A host calls minimum_to_decode.
MinimumToDecode(want, available) ==
    /\ Idle
    /\ LET r == minimum_to_decode(want, available, {})
       IN  /\ op' = "minimum_to_decode"
           /\ args' = [want |-> want, available |-> available]
           /\ ret' = r.ret
           /\ result' = r.minimum
    /\ pre' = EmptyMap
    /\ native' = <<>>
    /\ restored' = <<>>
    /\ UNCHANGED << libEnv, bindingVars, encoded, original, decoded, lifecycleVars >>

\* A host calls minimum_to_decode_with_cost.
MinimumToDecodeWithCost(want, available) ==
    /\ Idle
    /\ LET r == minimum_to_decode_with_cost(want, available, {})
       IN  /\ op' = "minimum_to_decode_with_cost"
           /\ args' = [want |-> want, available |-> available]
           /\ ret' = r.ret
           /\ result' = r.minimum
    /\ pre' = EmptyMap
    /\ native' = <<>>
    /\ restored' = <<>>
    /\ UNCHANGED << libEnv, bindingVars, encoded, original, decoded, lifecycleVars >>

\* A host calls get_chunk_size.
GetChunkSize(stripe_width) ==
    /\ Idle
    /\ op' = "get_chunk_size"
    /\ args' = [stripe_width |-> stripe_width]
    /\ ret' = "OK"
    /\ result' = get_chunk_size(stripe_width)
    /\ pre' = EmptyMap
    /\ native' = <<>>
    /\ restored' = <<>>
    /\ UNCHANGED << libEnv, bindingVars, encoded, original, decoded, lifecycleVars >>

\* the shards a caller of a deprecated signature has at hand: its containers
\* are converted into maps made for SIZECEPH_N shards
LegacyAvailableSets == { S \in AvailableSets : S \subseteq AllShards }

\* the results of a call through a deprecated or unsupported signature
Answered(name, a, before, status, value, calls) ==
    /\ op' = name
    /\ args' = a
    /\ pre' = before
    /\ ret' = status
    /\ result' = value
    /\ native' = calls

\* A host calls the deprecated encode; `stale`: with a map it used before.
EncodeLegacy(want, in, stale) ==
    /\ Idle
    /\ LET before == IF stale THEN StaleMap ELSE EmptyMap
           r      == encode_legacy(want, in, before, Binding, libEnv)
       IN  /\ Answered("encode_legacy", [want |-> want, in |-> in, bind |-> Binding],
                       before, r.ret, r.out, r.native)
           /\ SetBinding(r.bind)
    /\ restored' = <<>>
    /\ UNCHANGED << libEnv, encoded, original, decoded, lifecycleVars >>

\* A host calls the deprecated decode on the shards `keys`.
DecodeLegacy(want, keys, chunk_size, stale, answers) ==
    /\ Idle
    /\ LET before == IF stale THEN StaleMap ELSE EmptyMap
           chunks == ChunksOf(keys)
           r      == decode_legacy(want, chunks, before, chunk_size, Binding, libEnv,
                                   answers)
       IN  /\ Answered("decode_legacy",
                       [want |-> want, chunks |-> chunks, chunk_size |-> chunk_size,
                        answers |-> answers, bind |-> Binding],
                       before, r.ret, r.out, r.native)
           /\ restored' = r.restored
           /\ SetBinding(r.bind)
    /\ UNCHANGED << libEnv, encoded, original, decoded, lifecycleVars >>

\* A host calls decode_concat on the shards `keys`; `stale`: with a buffer
\* that holds bytes already.
DecodeConcat(want, keys, stale, answers) ==
    /\ Idle
    /\ LET before == IF stale THEN ExtraChunk ELSE <<>>
           chunks == ChunksOf(keys)
           r      == decode_concat(want, chunks, before, Binding, libEnv, answers)
       IN  /\ Answered("decode_concat",
                       [want |-> want, chunks |-> chunks, answers |-> answers,
                        bind |-> Binding],
                       before, r.ret, r.out, r.native)
           /\ restored' = r.restored
           /\ SetBinding(r.bind)
    /\ UNCHANGED << libEnv, encoded, original, decoded, lifecycleVars >>

\* A host calls the deprecated minimum_to_decode; `stale`: with a map it
\* used before.
MinimumToDecodeLegacy(want, available, stale) ==
    /\ Idle
    /\ LET before == IF stale THEN StaleMap ELSE EmptyMap
           r      == minimum_to_decode_legacy(want, available, before)
       IN  Answered("minimum_to_decode_legacy",
                    [want |-> want, available |-> available],
                    before, r.ret, r.minimum, <<>>)
    /\ restored' = <<>>
    /\ UNCHANGED << libEnv, bindingVars, encoded, original, decoded, lifecycleVars >>

\* A host calls the deprecated minimum_to_decode_with_cost; `stale`: with a
\* set it used before.
MinimumToDecodeWithCostLegacy(want, available, stale) ==
    /\ Idle
    /\ LET before == IF stale THEN {1, 6} ELSE {}
           r      == minimum_to_decode_with_cost_legacy(want, available, before)
       IN  Answered("minimum_to_decode_with_cost_legacy",
                    [want |-> want, available |-> available],
                    before, r.ret, r.minimum, <<>>)
    /\ restored' = <<>>
    /\ UNCHANGED << libEnv, bindingVars, encoded, original, decoded, lifecycleVars >>

\* A host calls encode_chunks or decode_chunks, in the shard-id form or the
\* deprecated one, on the shards it has and an output map.
ChunksCall(name, form, stale) ==
    /\ Idle
    /\ LET out == IF stale THEN StaleMap ELSE EmptyMap
           r   == IF name = "encode_chunks" THEN encode_chunks(encoded, out)
                  ELSE decode_chunks(DataShards, encoded, out)
       IN  Answered(name, [form |-> form, in |-> encoded, bind |-> Binding],
                    out, r.ret, [in |-> r.in, out |-> r.out], <<>>)
    /\ restored' = <<>>
    /\ UNCHANGED << libEnv, bindingVars, encoded, original, decoded, lifecycleVars >>

\* A host calls encode_delta on the old and the new data of a shard, with a
\* delta buffer that may hold bytes.
EncodeDelta(old_data, new_data, stale) ==
    /\ Idle
    /\ LET delta == IF stale THEN ExtraChunk ELSE <<>>
       IN  Answered("encode_delta",
                    [old_data |-> old_data, new_data |-> new_data, bind |-> Binding],
                    delta, "OK", encode_delta(old_data, new_data, delta), <<>>)
    /\ restored' = <<>>
    /\ UNCHANGED << libEnv, bindingVars, encoded, original, decoded, lifecycleVars >>

\* A host calls apply_delta on the shards it has and an output map.
ApplyDelta(stale) ==
    /\ Idle
    /\ LET out == IF stale THEN StaleMap ELSE EmptyMap
       IN  Answered("apply_delta", [in |-> encoded, bind |-> Binding],
                    out, "OK", apply_delta(encoded, out), <<>>)
    /\ restored' = <<>>
    /\ UNCHANGED << libEnv, bindingVars, encoded, original, decoded, lifecycleVars >>

\* A host calls init(profile_arg) on its codec.
InitProfile(profile_arg) ==
    /\ Idle
    /\ LET r == init(profile_arg, Binding, libEnv)
       IN  /\ Answered("init", [profile |-> profile_arg, bind |-> Binding],
                       EmptyMap, r.ret, 0, <<>>)
           /\ profile' = [profile EXCEPT !["a"] = r.profile]
           /\ SetBinding(r.bind)
    /\ restored' = <<>>
    /\ UNCHANGED << libEnv, encoded, original, decoded, instances,
                    library_mutex, pc >>

\* A host asks its codec for one of its chunk counts.
ChunkCount(name) ==
    /\ Idle
    /\ Answered(name, [profile |-> profile["a"], bind |-> Binding], EmptyMap, "OK",
                CASE name = "get_chunk_count" -> get_chunk_count(profile["a"])
                  [] name = "get_data_chunk_count" ->
                        get_data_chunk_count(profile["a"])
                  [] OTHER -> get_coding_chunk_count(profile["a"]),
                <<>>)
    /\ restored' = <<>>
    /\ UNCHANGED << libEnv, bindingVars, encoded, original, decoded, lifecycleVars >>

\* A host calls decode_concat(chunks, decoded) on the shards `keys`.
DecodeConcatChunks(keys, stale, answers) ==
    /\ Idle
    /\ LET before == IF stale THEN ExtraChunk ELSE <<>>
           chunks == ChunksOf(keys)
           r      == decode_concat_chunks(profile["a"], chunks, before, Binding,
                                          libEnv, answers)
       IN  /\ Answered("decode_concat_chunks",
                       [profile |-> profile["a"], chunks |-> chunks,
                        answers |-> answers, bind |-> Binding],
                       before, r.ret, r.out, r.native)
           /\ restored' = r.restored
           /\ SetBinding(r.bind)
    /\ UNCHANGED << libEnv, encoded, original, decoded, lifecycleVars >>

\* The call has returned and the host goes on: it keeps the shards of its
\* last encode and drops the rest of the call (a ceph_assert or a fault ends
\* the process instead).
Return ==
    /\ op # "none"
    /\ ret \notin {"ABORT", "SEGV"}
    /\ op' = "none"
    /\ args' = [want |-> {}]
    /\ pre' = EmptyMap
    /\ ret' = "OK"
    /\ result' = 0
    /\ native' = <<>>
    /\ restored' = <<>>
    /\ decoded' = EmptyMap
    /\ UNCHANGED << libEnv, bindingVars, encoded, original, lifecycleVars >>

Init ==
    /\ libEnv \in LibEnvs
    /\ sizeceph_handle = FALSE
    /\ library_loaded = FALSE
    /\ library_ref_count = 1
    /\ size_split_func = FALSE
    /\ size_restore_func = FALSE
    /\ size_can_get_restore_func = FALSE
    /\ encoded = EmptyMap
    /\ original = <<>>
    /\ decoded = EmptyMap
    /\ op = "none"
    /\ args = [want |-> {}]
    /\ pre = EmptyMap
    /\ ret = "OK"
    /\ result = 0
    /\ native = <<>>
    /\ restored = <<>>
    /\ instances = [i \in Instances |-> IF i = "a" THEN "live" ELSE "unborn"]
    /\ profile = [i \in Instances |-> IF i = "a" THEN DefaultProfile ELSE NoProfile]
    /\ library_mutex = "none"
    /\ pc = [t \in Threads |-> IdleThread]

\* a call starts only between calls: the guard Idle of every call is tested
\* before its arguments are drawn
Next ==
    \/ Idle /\ \E want \in WantToEncodeSets, in \in Inputs, reuse \in BOOLEAN :
          Encode(want, in, reuse)
    \/ Idle /\ \E want \in WantToReadSets, keys \in AvailableSets,
          chunk_size \in ChunkSizeArgs, stale \in BOOLEAN,
          answers \in NativeAnswers :
          Decode(want, keys, chunk_size, stale, answers)
    \/ Idle /\ \E want \in WantToReadSets, available \in AvailableSets :
          MinimumToDecode(want, available)
    \/ Idle /\ \E want \in WantToReadSets, available \in AvailableSets :
          \E costs \in CostMaps(available) :
              MinimumToDecodeWithCost(want, costs)
    \/ Idle /\ \E stripe_width \in StripeWidths : GetChunkSize(stripe_width)
    \/ Idle /\ \E want \in WantToEncodeSets, in \in Inputs, stale \in BOOLEAN :
          EncodeLegacy(want, in, stale)
    \/ Idle /\ \E want \in WantToReadSets, keys \in LegacyAvailableSets,
          chunk_size \in ChunkSizeArgs, stale \in BOOLEAN,
          answers \in NativeAnswers :
          DecodeLegacy(want, keys, chunk_size, stale, answers)
    \/ Idle /\ \E want \in WantToReadSets, keys \in LegacyAvailableSets,
          stale \in BOOLEAN, answers \in NativeAnswers :
          DecodeConcat(want, keys, stale, answers)
    \/ Idle /\ \E want \in WantToReadSets, available \in AvailableSets,
          stale \in BOOLEAN :
          MinimumToDecodeLegacy(want, available, stale)
    \/ Idle /\ \E want \in WantToReadSets, available \in LegacyAvailableSets,
          stale \in BOOLEAN :
          \E costs \in CostMaps(available) :
              MinimumToDecodeWithCostLegacy(want, costs, stale)
    \/ Idle /\ \E name \in {"encode_chunks", "decode_chunks"},
          form \in {"shard_id", "deprecated"}, stale \in BOOLEAN :
          ChunksCall(name, form, stale)
    \/ Idle /\ \E old_data \in {<<>>, ExtraChunk}, new_data \in {ExtraChunk, <<7, 7>>},
          stale \in BOOLEAN :
          EncodeDelta(old_data, new_data, stale)
    \/ Idle /\ \E stale \in BOOLEAN : ApplyDelta(stale)
    \/ Idle /\ \E profile_arg \in InitProfiles : InitProfile(profile_arg)
    \/ Idle /\ \E name \in {"get_chunk_count", "get_data_chunk_count",
                            "get_coding_chunk_count"} : ChunkCount(name)
    \/ Idle /\ \E keys \in LegacyAvailableSets, stale \in BOOLEAN,
          answers \in NativeAnswers :
          DecodeConcatChunks(keys, stale, answers)
    \/ Return

Spec == Init /\ [][Next]_vars

\* ------------------------------------------------------------------------
\* Construction, destruction and use across threads
\* ------------------------------------------------------------------------
\* mutant: the constructor does not count the object
construct_uncounted(b) == b

\* ErasureCodeSizeCeph(): library_ref_count++
construct(b) == [b EXCEPT !.ref_count = @ + 1]

\* unload_sizeceph_library_unsafe()
unload_sizeceph_library_unsafe(b) ==
    IF b.handle
    THEN [b EXCEPT !.handle = FALSE, !.loaded = FALSE, !.split = FALSE,
                   !.restore = FALSE, !.can = FALSE]
    ELSE b

\* mutant: every destructor unloads
no_instances_remain_unchecked(ref_count) == TRUE

\* `if (library_ref_count <= 0)`
no_instances_remain(ref_count) == ref_count <= 0

\* ~ErasureCodeSizeCeph()
destroy(b) ==
    LET counted == [b EXCEPT !.ref_count = @ - 1]
    IN  IF no_instances_remain(counted.ref_count)
        THEN [unload_sizeceph_library_unsafe(counted) EXCEPT !.ref_count = 0]
        ELSE counted

\* the profile and the static members a call may compare its outcome with
NoSnapshot == [profile |-> NoProfile, bind |-> NoBinding]

\* thread t starts the call `call`.  A thread is alone in its call while no
\* other thread is in one; the call of a thread that is alone keeps the
\* profile of its object and the static members as they were on entry.
Started(t, call) ==
    pc' = [u \in Threads |->
              IF u = t
              THEN IF (\A v \in Threads \ {t} : pc[v].at = "idle")
                      /\ call.fn \in {"init", "encode", "decode"}
                   THEN [call EXCEPT !.alone = TRUE,
                                     !.pre = [profile |-> profile[call.inst],
                                              bind |-> Binding]]
                   ELSE [call EXCEPT !.alone = FALSE, !.pre = NoSnapshot]
              ELSE IF pc[u].at = "idle" THEN pc[u]
              ELSE [pc[u] EXCEPT !.alone = FALSE, !.pre = NoSnapshot]]

\* thread t moves on in its call
Moved(t, at, status) ==
    pc' = [pc EXCEPT ![t].at = at, ![t].ret = status]

\* the call of thread t uses object i
Using(t, i) == pc[t].at # "idle" /\ pc[t].inst = i

\* t calls `new ErasureCodeSizeCeph` for object i and reaches the lock_guard
ConstructCall(t, i) ==
    /\ pc[t].at = "idle"
    /\ instances[i] \in {"unborn", "destroyed"}
    /\ instances' = [instances EXCEPT ![i] = "constructing"]
    /\ Started(t, [IdleThread EXCEPT !.at = "lock", !.fn = "construct", !.inst = i])
    /\ UNCHANGED << libEnv, bindingVars, callVars, profile, library_mutex >>

\* t deletes object i, which no thread is using, and reaches the lock_guard
DestroyCall(t, i) ==
    /\ pc[t].at = "idle"
    /\ instances[i] = "live"
    /\ \A u \in Threads : ~Using(u, i)
    /\ instances' = [instances EXCEPT ![i] = "destroying"]
    /\ Started(t, [IdleThread EXCEPT !.at = "lock", !.fn = "destroy", !.inst = i])
    /\ UNCHANGED << libEnv, bindingVars, callVars, profile, library_mutex >>

\* t calls init(profile_arg) on object i: the profile is stored and checked,
\* and a valid one leads to load_sizeceph_library()
InitCall(t, i, profile_arg) ==
    /\ pc[t].at = "idle"
    /\ instances[i] = "live"
    /\ profile' = [profile EXCEPT ![i] = profile_arg]
    /\ IF profile_valid(profile_arg)
       THEN Started(t, [IdleThread EXCEPT !.at = "lock", !.fn = "init", !.inst = i])
       ELSE Started(t, [IdleThread EXCEPT !.at = "done", !.fn = "init", !.inst = i,
                                          !.ret = "EINVAL"])
    /\ UNCHANGED << libEnv, bindingVars, callVars, instances, library_mutex >>

\* t calls encode or decode on object i, with arguments that pass the
\* call's checks or do not, and reaches load_sizeceph_library()
UseCall(t, i, fn, valid) ==
    /\ pc[t].at = "idle"
    /\ instances[i] = "live"
    /\ Started(t, [IdleThread EXCEPT !.at = "lock", !.fn = fn, !.inst = i,
                                     !.ret = IF valid THEN "OK" ELSE "EINVAL"])
    /\ UNCHANGED << libEnv, bindingVars, callVars, instances, profile, library_mutex >>

\* std::lock_guard<std::mutex> lock(library_mutex)
Acquire(t) ==
    /\ pc[t].at = "lock"
    /\ library_mutex = "none"
    /\ library_mutex' = t
    /\ pc' = [pc EXCEPT ![t].at = "locked"]
    /\ UNCHANGED << libEnv, bindingVars, callVars, instances, profile >>

\* the constructor's body, to the release of the mutex
ConstructBody(t) ==
    /\ pc[t].at = "locked"
    /\ pc[t].fn = "construct"
    /\ library_mutex = t
    /\ SetBinding(construct(Binding))
    /\ profile' = [profile EXCEPT ![pc[t].inst] = DefaultProfile]
    /\ instances' = [instances EXCEPT ![pc[t].inst] = "live"]
    /\ library_mutex' = "none"
    /\ Moved(t, "done", "OK")
    /\ UNCHANGED << libEnv, callVars >>

\* the destructor's body, to the release of the mutex
DestroyBody(t) ==
    /\ pc[t].at = "locked"
    /\ pc[t].fn = "destroy"
    /\ library_mutex = t
    /\ SetBinding(destroy(Binding))
    /\ profile' = [profile EXCEPT ![pc[t].inst] = NoProfile]
    /\ instances' = [instances EXCEPT ![pc[t].inst] = "destroyed"]
    /\ library_mutex' = "none"
    /\ Moved(t, "done", "OK")
    /\ UNCHANGED << libEnv, callVars >>

\* load_sizeceph_library() under the mutex, and what init, encode and decode
\* do with its answer
LoadBody(t) ==
    /\ pc[t].at = "locked"
    /\ pc[t].fn \in {"init", "encode", "decode"}
    /\ library_mutex = t
    /\ LET ld == load_sizeceph_library(Binding, libEnv)
       IN  /\ SetBinding(ld.bind)
           /\ IF ~ld.ok THEN Moved(t, "done", "ENOENT")
              ELSE IF pc[t].fn = "init" THEN Moved(t, "done", "OK")
              ELSE IF pc[t].ret # "OK" THEN Moved(t, "done", pc[t].ret)
              ELSE Moved(t, "native", "OK")
    /\ library_mutex' = "none"
    /\ UNCHANGED << libEnv, callVars, instances, profile >>

\* the function pointers encode (size_split_func) and decode
\* (size_can_get_restore_func, size_restore_func) call through are set
pointers_set(fn) ==
    IF fn = "encode" THEN size_split_func
    ELSE size_can_get_restore_func /\ size_restore_func

\* encode and decode call the native functions through the static pointers;
\* a call through a null pointer ends the process
NativeCall(t) ==
    /\ pc[t].at = "native"
    /\ IF pointers_set(pc[t].fn) THEN Moved(t, "done", "OK")
       ELSE Moved(t, "done", "SEGV")
    /\ UNCHANGED << libEnv, bindingVars, callVars, instances, profile, library_mutex >>

\* the call of t returns
ThreadReturn(t) ==
    /\ pc[t].at = "done"
    /\ pc[t].ret # "SEGV"
    /\ pc' = [pc EXCEPT ![t] = IdleThread]
    /\ UNCHANGED << libEnv, bindingVars, callVars, instances, profile, library_mutex >>

\* the process before any codec object exists
LifecycleInit ==
    /\ libEnv \in LibEnvs
    /\ sizeceph_handle = NoBinding.handle
    /\ library_loaded = NoBinding.loaded
    /\ library_ref_count = NoBinding.ref_count
    /\ size_split_func = NoBinding.split
    /\ size_restore_func = NoBinding.restore
    /\ size_can_get_restore_func = NoBinding.can
    /\ encoded = EmptyMap
    /\ original = <<>>
    /\ decoded = EmptyMap
    /\ op = "none"
    /\ args = [want |-> {}]
    /\ pre = EmptyMap
    /\ ret = "OK"
    /\ result = 0
    /\ native = <<>>
    /\ restored = <<>>
    /\ instances = [i \in Instances |-> "unborn"]
    /\ profile = [i \in Instances |-> NoProfile]
    /\ library_mutex = "none"
    /\ pc = [t \in Threads |-> IdleThread]

LifecycleNext ==
    \E t \in Threads :
        \/ \E i \in Instances : ConstructCall(t, i)
        \/ \E i \in Instances : DestroyCall(t, i)
        \/ \E i \in Instances, profile_arg \in ProfileArgs : InitCall(t, i, profile_arg)
        \/ \E i \in Instances, fn \in {"encode", "decode"}, valid \in BOOLEAN :
              UseCall(t, i, fn, valid)
        \/ Acquire(t)
        \/ ConstructBody(t)
        \/ DestroyBody(t)
        \/ LoadBody(t)
        \/ NativeCall(t)
        \/ ThreadReturn(t)

LifecycleSpec == LifecycleInit /\ [][LifecycleNext]_vars

\* ------------------------------------------------------------------------
\* The simple XOR codec (ErasureCodeSimpleXOR, k=2, m=1)
\* ------------------------------------------------------------------------
\* largest blocksize of the XOR codec's calls
MaxBlock == 2

\* the bytes its blocks are made of
XorBytes == {0, 90, 255}

\* the blocks of `blocksize` bytes
Blocks(blocksize) == [1 .. blocksize -> XorBytes]

\* k and m after a successful parse()
XOR_K == 2
XOR_M == 1

\* a ^ b on the low n bits of two chars
RECURSIVE BitXor(_, _, _)
BitXor(a, b, n) ==
    IF n = 0 THEN 0
    ELSE (((a % 2) + (b % 2)) % 2) + 2 * BitXor(a \div 2, b \div 2, n - 1)

\* mutant: the bytes are added
xor_encode_internal_add(data1, data2, size) ==
    [i \in 1 .. size |-> (data1[i] + data2[i]) % 256]

\* xor_encode_internal(data1, data2, result, size): the bytes left in result
xor_encode_internal(data1, data2, size) ==
    [i \in 1 .. size |-> BitXor(data1[i], data2[i], 8)]

\* jerasure_encode(data, coding, blocksize): the shards 0, 1 (data) and 2
\* (coding[0]) after the call
jerasure_encode(shards, blocksize) ==
    [shards EXCEPT ![2] = xor_encode_internal(shards[0], shards[1], blocksize)]

\* `while (erasures[num_erasures] != -1) num_erasures++`
RECURSIVE count_erasures(_, _)
count_erasures(erasures, num_erasures) ==
    IF erasures[num_erasures + 1] # -1
    THEN count_erasures(erasures, num_erasures + 1)
    ELSE num_erasures

\* the loop "Reconstruct missing chunks" from erasures[i] on
RECURSIVE reconstruct(_, _, _, _, _)
reconstruct(erasures, i, num_erasures, shards, blocksize) ==
    IF i >= num_erasures THEN shards
    ELSE LET missing == erasures[i + 1]
             next == IF missing = 0
                     THEN [shards EXCEPT ![0] =
                              xor_encode_internal(shards[1], shards[2], blocksize)]
                     ELSE IF missing = 1
                     THEN [shards EXCEPT ![1] =
                              xor_encode_internal(shards[0], shards[2], blocksize)]
                     ELSE IF missing = 2
                     THEN [shards EXCEPT ![2] =
                              xor_encode_internal(shards[0], shards[1], blocksize)]
                     ELSE shards
         IN  reconstruct(erasures, i + 1, num_erasures, next, blocksize)

\* jerasure_decode(erasures, data, coding, blocksize): [rc, shards]
jerasure_decode(erasures, shards, blocksize) ==
    LET num_erasures == count_erasures(erasures, 0)
    IN  IF num_erasures > XOR_M THEN [rc |-> -1, shards |-> shards]
        ELSE [rc |-> 0,
              shards |-> reconstruct(erasures, 0, num_erasures, shards, blocksize)]

\* the erasure lists a host passes, each terminated by -1
ErasureLists ==
    { <<-1>>, <<0, -1>>, <<1, -1>>, <<2, -1>>, <<3, -1>>, <<0, 1, -1>> }

\* the shards a host hands to jerasure_decode: those it lost hold `junk`
Erased(shards, erasures, junk) ==
    [i \in DOMAIN shards |->
        IF \E j \in 1 .. (Len(erasures) - 1) : erasures[j] = i
        THEN [b \in DOMAIN shards[i] |-> junk]
        ELSE shards[i]]

\* A host encodes the blocks data0 and data1 into a coding block that held
\* `junk`.
JerasureEncode(data0, data1, junk) ==
    /\ Idle
    /\ Len(data0) = Len(data1)
    /\ LET blocksize == Len(data0)
           shards == (0 :> data0) @@ (1 :> data1)
                        @@ (2 :> [b \in 1 .. blocksize |-> junk])
       IN  /\ Answered("jerasure_encode", [shards |-> shards, blocksize |-> blocksize],
                       EmptyMap, "OK", 0, <<>>)
           /\ encoded' = jerasure_encode(shards, blocksize)
    /\ decoded' = EmptyMap
    /\ UNCHANGED << libEnv, bindingVars, original, restored, lifecycleVars >>

\* A host that lost the shards in `erasures` of its last encode decodes.
JerasureDecode(erasures, junk) ==
    /\ Idle
    /\ DOMAIN encoded = 0 .. XOR_K
    /\ LET blocksize == Len(encoded[0])
           shards == Erased(encoded, erasures, junk)
           r == jerasure_decode(erasures, shards, blocksize)
       IN  /\ Answered("jerasure_decode",
                       [erasures |-> erasures, shards |-> shards,
                        blocksize |-> blocksize],
                       EmptyMap, "OK", r.rc, <<>>)
           /\ decoded' = r.shards
    /\ UNCHANGED << libEnv, bindingVars, encoded, original, restored, lifecycleVars >>

\* the process before the XOR codec's first call
XorInit ==
    /\ libEnv = [lib |-> FALSE, syms |-> {}]
    /\ sizeceph_handle = NoBinding.handle
    /\ library_loaded = NoBinding.loaded
    /\ library_ref_count = NoBinding.ref_count
    /\ size_split_func = NoBinding.split
    /\ size_restore_func = NoBinding.restore
    /\ size_can_get_restore_func = NoBinding.can
    /\ encoded = EmptyMap
    /\ original = <<>>
    /\ decoded = EmptyMap
    /\ op = "none"
    /\ args = [want |-> {}]
    /\ pre = EmptyMap
    /\ ret = "OK"
    /\ result = 0
    /\ native = <<>>
    /\ restored = <<>>
    /\ instances = [i \in Instances |-> "unborn"]
    /\ profile = [i \in Instances |-> NoProfile]
    /\ library_mutex = "none"
    /\ pc = [t \in Threads |-> IdleThread]

XorNext ==
    \/ Idle /\ \E blocksize \in 0 .. MaxBlock :
          \E data0 \in Blocks(blocksize), data1 \in Blocks(blocksize),
             junk \in XorBytes :
             JerasureEncode(data0, data1, junk)
    \/ Idle /\ \E erasures \in ErasureLists, junk \in XorBytes :
          JerasureDecode(erasures, junk)
    \/ Return

XorSpec == XorInit /\ [][XorNext]_vars

\* ------------------------------------------------------------------------
\* Properties
\* ------------------------------------------------------------------------
\* the buffers stored under `ids`, concatenated in id order
RECURSIVE ConcatInOrder(_, _)
ConcatInOrder(map, ids) ==
    IF ids = {} THEN <<>>
    ELSE map[MinOf(ids)] \o ConcatInOrder(map, ids \ {MinOf(ids)})

\* the chunk size decode works with, as the interface defines it: the
\* argument, or the length of the first chunk when the argument is 0
ChunkSizeOf(a) ==
    IF a.chunk_size = 0 /\ DOMAIN a.chunks # {}
    THEN Len(a.chunks[MinOf(DOMAIN a.chunks)])
    ELSE a.chunk_size

\* the call was a decode of all 9 shards of the last encode, unmodified, for
\* the data shards, at the shards' own size, and the native library restored
RoundTripDecode ==
    /\ op = "decode"
    /\ DOMAIN encoded = AllShards
    /\ args.chunks = encoded
    /\ args.want = DataShards
    /\ args.chunk_size \in {0, Len(encoded[0])}
    /\ ret \notin {"ENOENT", "ENOTSUP", "EIO"}

\* C1: round trip (P1).  For every x whose length is a multiple of 4, encode
\* of all 9 shards returns OK, and decode of the data shards from the 9
\* shards it produced returns OK with buffers that concatenate to x.
C1_RoundTrip ==
    /\ (op = "encode" /\ library_loaded /\ args.want = AllShards
            /\ Len(args.in) % SIZECEPH_ALGORITHM_ALIGNMENT = 0)
        => ret = "OK"
    /\ RoundTripDecode
        => (ret = "OK" /\ ConcatInOrder(decoded, DataShards) = original)

\* The round trip the code does deliver: inputs whose length is a non-zero
\* multiple of K * A = 16.
RoundTripOfStripes ==
    /\ (op = "encode" /\ library_loaded /\ args.want = AllShards
            /\ Len(args.in) % (SIZECEPH_K * SIZECEPH_ALGORITHM_ALIGNMENT) = 0
            /\ pre = EmptyMap)
        => ret = "OK"
    /\ (RoundTripDecode /\ Len(original) > 0)
        => (ret = "OK" /\ ConcatInOrder(decoded, DataShards) = original)

UnitsNeeded(w, k) ==
    U32Int(U32Div(w, k)) + (IF U32Mod(w, k) # 0 THEN 1 ELSE 0)

\* C6: chunk-size identity (P2).  For every unsigned 32-bit stripe_width w,
\* K * get_chunk_size(w) = round_up(w, K * A), i.e. get_chunk_size(w) is A
\* times the number of (K * A)-byte units w needs, and it is at least w / K.
C6_ChunkSizeIdentity ==
    (op = "get_chunk_size")
        => /\ U32Int(result) = SIZECEPH_ALGORITHM_ALIGNMENT
                 * UnitsNeeded(args.stripe_width,
                               SIZECEPH_K * SIZECEPH_ALGORITHM_ALIGNMENT)
           /\ U32Int(result) >= U32Int(U32Div(args.stripe_width, SIZECEPH_K))

\* The identity the code does deliver: every stripe width up to 2^32 - 16.
ChunkSizeIdentityBelowWrap ==
    (op = "get_chunk_size"
        /\ UnitsNeeded(args.stripe_width, SIZECEPH_K * SIZECEPH_ALGORITHM_ALIGNMENT)
              < LIMB * (LIMB \div (SIZECEPH_K * SIZECEPH_ALGORITHM_ALIGNMENT)))
        => /\ U32Int(result) = SIZECEPH_ALGORITHM_ALIGNMENT
                 * UnitsNeeded(args.stripe_width,
                               SIZECEPH_K * SIZECEPH_ALGORITHM_ALIGNMENT)
           /\ U32Int(result) >= U32Int(U32Div(args.stripe_width, SIZECEPH_K))

\* C7: empty input (P6).  With the binding loaded, encode of an empty input
\* for all 9 shards returns OK, leaves an empty buffer under each of the 9
\* ids and never invokes the native split.
C7_EmptyInput ==
    (op = "encode" /\ library_loaded /\ args.want = AllShards /\ Len(args.in) = 0)
        => /\ ret = "OK"
           /\ DOMAIN encoded = AllShards
           /\ \A i \in AllShards : encoded[i] = <<>>
           /\ native = <<>>

\* an empty input was encoded over a map that held 4-byte shards
C7_Witness ==
    /\ op = "encode"
    /\ library_loaded
    /\ args.want = AllShards
    /\ Len(args.in) = 0
    /\ DOMAIN pre = AllShards
    /\ Len(pre[0]) = 4
    /\ ret = "OK"

\* the positions in the call's native trace at which fn was invoked
CallsOf(fn) == { k \in 1 .. Len(native) : native[k].fn = fn }

\* the decode passed the shard-presence and the chunk-size checks
PassedChecks ==
    /\ op = "decode"
    /\ library_loaded
    /\ AllShards \subseteq DOMAIN args.chunks
    /\ ChunkSizeOf(args) # 0

\* C8: validator / restore protocol.  A decode that passes the presence and
\* chunk-size checks consults can_restore exactly once and before restore;
\* "not restorable" gives NOT_SUPPORTED with restore never invoked; a
\* non-zero restore gives IO; neither error writes to the output map.
C8_ValidatorProtocol ==
    PassedChecks
        => /\ CallsOf("size_can_get_restore_fn") = {1}
           /\ CallsOf("size_restore") \subseteq {2}
           /\ CallsOf("size_split") = {}
           /\ native[1].rc = 0
                 => (ret = "ENOTSUP" /\ Len(native) = 1 /\ decoded = pre)
           /\ (Len(native) = 2 /\ "rc" \in DOMAIN native[2] /\ native[2].rc # 0)
                 => (ret = "EIO" /\ decoded = pre)

\* restore failed in a decode into a map that held buffers
C8_Witness ==
    /\ PassedChecks
    /\ Len(native) = 2
    /\ "rc" \in DOMAIN native[2]
    /\ native[2].rc # 0
    /\ args.want = DataShards
    /\ pre = StaleMap
    /\ ret = "EIO"

\* C9: decode output shape (I4/P4).  Whenever decode returns OK with chunk
\* size C and a restored buffer R of length 4 * C, the output map has an
\* entry for every id of want_to_read: the slice R[id*C .. (id+1)*C) for
\* id < 4 (the last one ending at L) and an empty buffer for 4 <= id < 9.
C9_DecodeOutputShape ==
    (op = "decode" /\ ret = "OK"
        /\ Len(restored) % SIZECEPH_ALGORITHM_ALIGNMENT = 0
        /\ Len(restored) \div SIZECEPH_ALGORITHM_ALIGNMENT = ChunkSizeOf(args))
        => LET C == ChunkSizeOf(args)
           IN  \A id \in args.want :
                  /\ id \in DOMAIN decoded
                  /\ id < SIZECEPH_K
                        => decoded[id] = SubSeq(restored, id * C + 1, (id + 1) * C)
                  /\ id = SIZECEPH_K - 1
                        => decoded[id] = SubSeq(restored, id * C + 1, Len(restored))
                  /\ (SIZECEPH_K <= id /\ id < SIZECEPH_N) => decoded[id] = <<>>

\* all 9 shards were read back from 4-byte chunks into a map that held
\* buffers under a data and a parity id
C9_Witness ==
    /\ op = "decode"
    /\ ret = "OK"
    /\ args.want = AllShards
    /\ args.chunk_size = 4
    /\ Len(restored) = 16
    /\ pre = StaleMap

\* the available set of a minimum_to_decode call
AvailableOf ==
    IF op = "minimum_to_decode_with_cost" THEN DOMAIN args.available
    ELSE args.available

LiveInstances == { i \in Instances : instances[i] \in {"live", "destroying"} }

\* the binding is unloaded: no handle, not loaded, no function pointer
Unloaded ==
    /\ ~sizeceph_handle
    /\ ~library_loaded
    /\ ~size_split_func
    /\ ~size_restore_func
    /\ ~size_can_get_restore_func

\* the binding is populated: handle, loaded flag and the three pointers
Populated ==
    /\ sizeceph_handle
    /\ library_loaded
    /\ size_split_func
    /\ size_restore_func
    /\ size_can_get_restore_func

\* the library opens but lacks one of the three symbols
SymbolsMissing == libEnv.lib /\ libEnv.syms # Symbols

\* C11: ref-count discipline (P9).  Whatever the threads did, once every
\* constructed object has been destroyed library_ref_count is 0 and the
\* binding is unloaded: handle null, loaded false, the three pointers null.
C11_RefCountDiscipline ==
    (/\ \A i \in Instances : instances[i] \in {"unborn", "destroyed"}
     /\ \E i \in Instances : instances[i] = "destroyed")
        => (library_ref_count = 0 /\ Unloaded)

\* What the code does deliver after the last destructor: the count is 0, the
\* handle is released and the library is not loaded.
RefCountZeroAfterLastDestroy ==
    (/\ \A i \in Instances : instances[i] \in {"unborn", "destroyed"}
     /\ \E i \in Instances : instances[i] = "destroyed")
        => (library_ref_count = 0 /\ ~sizeceph_handle /\ ~library_loaded)

\* C12: binding atomicity (I1).  In every state in which no thread holds
\* the mutex, the handle and the three function pointers are all set with
\* loaded = true, or all null with loaded = false; also after a load in
\* which the library opened and only some symbols resolved.
C12_BindingAtomicity ==
    library_mutex = "none" => (Populated \/ Unloaded)

\* The atomicity the code does deliver: on hosts where the library is
\* absent or exports all three symbols.
BindingAtomicWhenSymbolsResolve ==
    (library_mutex = "none" /\ ~SymbolsMissing) => (Populated \/ Unloaded)

\* C13: binding invariant (I2).  In every state in which no thread holds the
\* mutex, library_ref_count is >= 0 and is the number of existing objects,
\* loaded implies a handle, and where a symbol fails to resolve the handle
\* is released and loaded stays false.
C13_BindingInvariant ==
    library_mutex = "none"
        => /\ library_ref_count >= 0
           /\ library_ref_count = Cardinality(LiveInstances)
           /\ library_loaded => sizeceph_handle
           /\ SymbolsMissing => (~sizeceph_handle /\ ~library_loaded)

\* two objects exist and an init has just failed on unresolved symbols
C13_Witness ==
    /\ library_mutex = "none"
    /\ Cardinality(LiveInstances) = 2
    /\ SymbolsMissing
    /\ \E t \in Threads :
          pc[t].at = "done" /\ pc[t].fn = "init" /\ pc[t].ret = "ENOENT"

\* C14: no unload under use.  With no object destroyed while one of its own
\* calls runs, encode and decode find the pointers they call through set,
\* and the binding is never unloaded while an object exists.
C14_NoUnloadUnderUse ==
    /\ [](\A t \in Threads :
             pc[t].at = "native" => (library_loaded /\ pointers_set(pc[t].fn)))
    /\ [][(library_loaded /\ ~library_loaded') => LiveInstances' = {}]_vars

\* one thread is about to call through the pointers while the other has
\* destroyed the second object
C14_Witness ==
    \E t \in Threads, u \in Threads :
        /\ pc[t].at = "native"
        /\ pc[u].at = "done"
        /\ pc[u].fn = "destroy"
        /\ Cardinality(LiveInstances) = 1

\* C15: lock-free data path.  Once the binding is loaded, encode and decode
\* do not take the mutex: no encode or decode holds it, and none waits for
\* it behind another call, a constructor or a destructor.
C15_LockFreeDataPath ==
    \A t \in Threads :
        (library_loaded /\ pc[t].fn \in {"encode", "decode"})
            => /\ library_mutex # t
               /\ ~(pc[t].at = "lock" /\ library_mutex # "none")

\* C16: errors leave state untouched.  A call of init, encode or decode that
\* returns a non-zero status while no other thread is in a call leaves the
\* object's profile and the shared binding (handle, loaded flag, function
\* pointers, ref_count) as they were on entry.
C16_ErrorsLeaveStateUntouched ==
    \A t \in Threads :
        (pc[t].at = "done" /\ pc[t].alone /\ pc[t].ret # "OK")
            => /\ profile[pc[t].inst] = pc[t].pre.profile
               /\ Binding = pc[t].pre.bind

\* two maps hold the same buffers under the same keys
SameEntries(x, y) == DOMAIN x = DOMAIN y /\ \A i \in DOMAIN x : x[i] = y[i]

RECURSIVE ShardsInOrder(_, _, _)
ShardsInOrder(map, ids, chunk_size) ==
    IF ids = {} THEN <<>>
    ELSE (IF MinOf(ids) \in DOMAIN map THEN map[MinOf(ids)] ELSE Zeros(chunk_size))
            \o ShardsInOrder(map, ids \ {MinOf(ids)}, chunk_size)

\* C18: decode_concat.  When the underlying decode (at the length of the
\* first chunk) succeeds, the output is the decoded buffers of want_to_read
\* in ascending id order, with chunk_size zero bytes for a requested shard
\* the decoded map lacks; when it fails, its status is returned and the
\* output buffer is as it was.
C18_DecodeConcat ==
    op = "decode_concat"
        => LET chunk_size == IF DOMAIN args.chunks = {} THEN 0
                             ELSE Len(args.chunks[MinOf(DOMAIN args.chunks)])
               m == decode(args.want, args.chunks, EmptyMap, chunk_size,
                           args.bind, libEnv, args.answers)
           IN  /\ ret = m.ret
               /\ ret = "OK" => result = ShardsInOrder(m.out, args.want, chunk_size)
               /\ ret # "OK" => result = pre

\* decode_concat of the four data shards replaced the bytes the caller's
\* buffer held by the 16 bytes that were encoded
C18_Witness ==
    /\ op = "decode_concat"
    /\ ret = "OK"
    /\ args.want = DataShards
    /\ pre # <<>>
    /\ Len(result) = 16
    /\ result = original

\* C19: chunk-size inference.  For every decode with all 9 shards present and
\* chunk_size <= 0, zero or negative, the effective chunk size is the length
\* of the first entry of the chunks map (so size_restore is asked for 4
\* times that length), and the chunk-size check returns INVALID iff that
\* length is 0.
C19_ChunkSizeInference ==
    (op = "decode" /\ library_loaded /\ AllShards \subseteq DOMAIN args.chunks
        /\ args.chunk_size <= 0)
        => LET first == Len(args.chunks[MinOf(DOMAIN args.chunks)])
           IN  /\ (ret = "EINVAL" /\ native = <<>>) <=> first = 0
               /\ \A k \in CallsOf("size_restore") :
                     native[k].len = U32(SIZECEPH_ALGORITHM_ALIGNMENT * first)

\* The inference the code does deliver: for chunk_size = 0.
ChunkSizeInferenceFromZero ==
    (op = "decode" /\ library_loaded /\ AllShards \subseteq DOMAIN args.chunks
        /\ args.chunk_size = 0)
        => LET first == Len(args.chunks[MinOf(DOMAIN args.chunks)])
           IN  /\ (ret = "EINVAL" /\ native = <<>>) <=> first = 0
               /\ \A k \in CallsOf("size_restore") :
                     native[k].len = U32(SIZECEPH_ALGORITHM_ALIGNMENT * first)

\* C20: unsupported operations.  In every state encode_chunks and
\* decode_chunks, in both forms, return NOT_SUPPORTED and leave their
\* arguments as they were; encode_delta leaves an empty delta buffer;
\* apply_delta leaves the output map empty; none of them invokes a native
\* function or changes the binding.
C20_UnsupportedOperations ==
    /\ op \in {"encode_chunks", "decode_chunks"}
          => (ret = "ENOTSUP" /\ result.in = args.in /\ result.out = pre)
    /\ op = "encode_delta" => result = <<>>
    /\ op = "apply_delta" => result = EmptyMap
    /\ op \in {"encode_chunks", "decode_chunks", "encode_delta", "apply_delta"}
          => (native = <<>> /\ Binding = args.bind)

\* with the binding loaded, encode_delta was given differing old and new
\* data and a delta buffer that held bytes
C20_Witness ==
    /\ op = "encode_delta"
    /\ library_loaded
    /\ args.old_data # args.new_data
    /\ pre # <<>>

\* the profile supplies a k or an m that init is to refuse: outside
\* force_all_chunks a k other than 4 or an m other than 5, with
\* force_all_chunks = "true" whatever is not (k=9, m=0) or (k=4, m=5)
Refused(prof) ==
    LET has_k == "k" \in DOMAIN prof
        has_m == "m" \in DOMAIN prof
    IN  IF "force_all_chunks" \in DOMAIN prof /\ prof["force_all_chunks"] = "true"
        THEN /\ has_k \/ has_m
             /\ ~(has_k /\ has_m /\ prof["k"] = "9" /\ prof["m"] = "0")
             /\ ~(has_k /\ has_m /\ prof["k"] = "4" /\ prof["m"] = "5")
        ELSE \/ has_k /\ prof["k"] # "4"
             \/ has_m /\ prof["m"] # "5"

\* C21: profile validation.  init returns INVALID, without reaching
\* load_sizeceph_library(), whenever the profile supplies a k other than 4 or
\* an m other than 5; with force_all_chunks = "true" exactly (k=9, m=0) and
\* (k=4, m=5) are accepted and every other supplied k or m is refused.
C21_ProfileValidation ==
    \A t \in Threads :
        (pc[t].fn = "init" /\ pc[t].alone /\ Refused(profile[pc[t].inst]))
            => /\ pc[t].at = "done"
               /\ pc[t].ret = "EINVAL"
               /\ Binding = pc[t].pre.bind

\* What init does deliver: outside force_all_chunks, and with
\* force_all_chunks when both k and m are supplied.
ProfileValidationOfSuppliedPairs ==
    \A t \in Threads :
        (pc[t].fn = "init" /\ pc[t].alone /\ Refused(profile[pc[t].inst])
            /\ ("force_all_chunks" \in DOMAIN profile[pc[t].inst]
                    => {"k", "m"} \subseteq DOMAIN profile[pc[t].inst]))
            => /\ pc[t].at = "done"
               /\ pc[t].ret = "EINVAL"
               /\ Binding = pc[t].pre.bind

\* the profile of an object initialised in standard mode
StandardProfile == [k |-> to_string(SIZECEPH_K), m |-> to_string(SIZECEPH_M)]

Bit(x, i) == (x \div (2 ^ i)) % 2

\* block c is the bytewise exclusive or of the blocks a and b
IsXorOf(c, a, b) ==
    /\ Len(c) = Len(a)
    /\ Len(c) = Len(b)
    /\ \A j \in 1 .. Len(c) : \A i \in 0 .. 7 :
          Bit(c[j], i) = (IF Bit(a[j], i) = Bit(b[j], i) THEN 0 ELSE 1)

\* C23: XOR laws (P7).  jerasure_encode sets parity = d0 XOR d1 bytewise;
\* for a single erasure of shard 0, 1 or 2 (list terminated by -1)
\* jerasure_decode returns 0 and the reconstructed shard is the bytewise XOR
\* of the other two, so that encode followed by erase-and-decode restores
\* the original shard.
C23_XorLaws ==
    /\ op = "jerasure_encode"
          => /\ IsXorOf(encoded[2], args.shards[0], args.shards[1])
             /\ encoded[0] = args.shards[0]
             /\ encoded[1] = args.shards[1]
    /\ (op = "jerasure_decode" /\ Len(args.erasures) = 2
            /\ args.erasures[1] \in 0 .. XOR_K)
          => LET e == args.erasures[1]
                 others == (0 .. XOR_K) \ {e}
                 a == MinOf(others)
                 b == MinOf(others \ {a})
             IN  /\ result = 0
                 /\ IsXorOf(decoded[e], args.shards[a], args.shards[b])
                 /\ decoded = encoded

\* shard 0, two bytes long, was lost, handed over as 0xFF bytes and restored
C23_Witness ==
    /\ op = "jerasure_decode"
    /\ args.erasures = <<0, -1>>
    /\ args.blocksize = 2
    /\ args.shards[0] = <<255, 255>>
    /\ encoded[0] = <<90, 0>>
    /\ encoded[1] = <<255, 90>>
    /\ decoded[0] = <<90, 0>>
    /\ result = 0

\* C24: subset encode, as the unit tests state it.  encode called with any
\* non-empty subset of the valid shard ids as want_to_encode returns OK and
\* the output map holds exactly the requested shards and no others.
C24_SubsetEncode ==
    (op = "encode" /\ library_loaded /\ args.want # {}
        /\ args.want \subseteq AllShards /\ pre = EmptyMap
        /\ Len(args.in) % (SIZECEPH_K * SIZECEPH_ALGORITHM_ALIGNMENT) = 0)
        => (ret = "OK" /\ DOMAIN encoded = args.want)

\* round_up(|x|, 512) / 4: the shard length the unit tests expect
PaddedChunkSize(len) ==
    (((len + SIZECEPH_MIN_BLOCK_SIZE - 1) \div SIZECEPH_MIN_BLOCK_SIZE)
        * SIZECEPH_MIN_BLOCK_SIZE) \div SIZECEPH_K

\* C25: padded encode, as the unit tests state it.  encode with want = [0, 9)
\* accepts a non-empty input of any length, returns OK and produces 9 shards
\* each of length round_up(|x|, 512) / 4.
C25_PaddedEncode ==
    (op = "encode" /\ library_loaded /\ args.want = AllShards
        /\ Len(args.in) > 0 /\ pre = EmptyMap)
        => /\ ret = "OK"
           /\ DOMAIN encoded = AllShards
           /\ \A i \in AllShards : Len(encoded[i]) = PaddedChunkSize(Len(args.in))

\* C26: encode's consistency assertion never fires.  For every input that
\* passes encode's validation (want = [0, 9), length L > 0, L mod 4 = 0) the
\* two chunk-size formulas agree, get_chunk_size(L) = L / 4, and encode ends
\* with a status code.
C26_AssertionNeverFires ==
    (op = "encode" /\ library_loaded /\ args.want = AllShards
        /\ Len(args.in) > 0 /\ Len(args.in) % SIZECEPH_ALGORITHM_ALIGNMENT = 0
        /\ pre = EmptyMap)
        => /\ U32Int(get_chunk_size(U32(Len(args.in))))
                 = Len(args.in) \div SIZECEPH_ALGORITHM_ALIGNMENT
           /\ ret # "ABORT"

\* The assertion holds for the inputs whose length is a multiple of
\* K * alignment = 16.
AssertionHoldsOnFullStripes ==
    (op = "encode" /\ library_loaded /\ args.want = AllShards
        /\ Len(args.in) > 0
        /\ Len(args.in) % (SIZECEPH_K * SIZECEPH_ALGORITHM_ALIGNMENT) = 0
        /\ pre = EmptyMap)
        => /\ U32Int(get_chunk_size(U32(Len(args.in))))
                 = Len(args.in) \div SIZECEPH_ALGORITHM_ALIGNMENT
           /\ ret = "OK"

\* C27: encode step ordering.  In every successful encode of a non-empty
\* input all 9 output buffers are allocated, installed in the output map and
\* zero-filled before the native split is invoked; split is invoked exactly
\* once, with a contiguous copy of the input and the length |input|; and the
\* caller's input buffer is not modified.
C27_EncodeStepOrdering ==
    (op = "encode" /\ ret = "OK" /\ Len(args.in) > 0)
        => /\ Len(native) = 1
           /\ native[1].fn = "size_split"
           /\ DOMAIN native[1].out = AllShards
           /\ \A i \in AllShards :
                 /\ native[1].out[i]
                       = Zeros(Len(args.in) \div SIZECEPH_ALGORITHM_ALIGNMENT)
                 /\ i \in DOMAIN encoded
                 /\ Len(encoded[i]) = Len(native[1].out[i])
           /\ native[1].src = args.in
           /\ U32Int(native[1].len) = Len(args.in)
           /\ original = args.in

\* 16 bytes were encoded into a map that held empty buffers under all ids
C27_Witness ==
    /\ op = "encode"
    /\ ret = "OK"
    /\ Len(args.in) = 16
    /\ DOMAIN pre = AllShards
    /\ Len(native) = 1
    /\ encoded[0] # Zeros(4)

\* C28: decode is all-or-nothing on its output.  Whenever decode returns a
\* non-zero status, INVALID for a want_to_read holding a shard id >= 9 beside
\* valid ids included, the output map holds exactly what it held before the
\* call.
C28_DecodeAllOrNothing ==
    (op = "decode" /\ ret \in {"ENOENT", "EINVAL", "ENOTSUP", "EIO"})
        => decoded = pre

\* What decode does deliver: the output map is untouched by every error
\* return that precedes the "Handle chunk requests" loop.
DecodeErrorsBeforeRequestsWriteNothing ==
    (op = "decode" /\ ret \in {"ENOENT", "ENOTSUP", "EIO"}) => decoded = pre

\* C29: decode_concat output length.  Whenever decode_concat(want_to_read,
\* chunks) succeeds with per-shard chunk size C, the returned bytes have
\* length C * |want_to_read|: every requested shard, data or parity,
\* occupies exactly C bytes, at offset C times its rank in want_to_read.
C29_ConcatLength ==
    (op = "decode_concat" /\ ret = "OK")
        => Len(result) = concat_chunk_size(args.chunks) * Cardinality(args.want)

\* The length the code delivers: C bytes for each requested data shard and
\* none for a requested parity shard.
ConcatLengthCountsDataShards ==
    (op = "decode_concat" /\ ret = "OK"
        /\ Len(restored) = SIZECEPH_K * concat_chunk_size(args.chunks))
        => Len(result) = concat_chunk_size(args.chunks)
                            * Cardinality(args.want \cap DataShards)

\* C30: encode installs fresh buffers.  After a successful encode of a
\* non-empty input of length L the output map holds a buffer of exactly L / 4
\* bytes under every id in [0, 9), whatever the map held on entry, and no
\* internal assertion fails.
C30_FreshBuffers ==
    (op = "encode" /\ library_loaded /\ args.want = AllShards
        /\ Len(args.in) > 0
        /\ Len(args.in) % (SIZECEPH_K * SIZECEPH_ALGORITHM_ALIGNMENT) = 0)
        => /\ ret = "OK"
           /\ \A id \in AllShards :
                 /\ id \in DOMAIN encoded
                 /\ Len(encoded[id]) = Len(args.in) \div SIZECEPH_ALGORITHM_ALIGNMENT

\* Fresh buffers are installed when the entries of the map are absent or
\* empty on entry.
FreshBuffersInEmptyEntries ==
    (op = "encode" /\ library_loaded /\ args.want = AllShards
        /\ Len(args.in) > 0
        /\ Len(args.in) % (SIZECEPH_K * SIZECEPH_ALGORITHM_ALIGNMENT) = 0
        /\ \A id \in DOMAIN pre : pre[id] = <<>>)
        => /\ ret = "OK"
           /\ \A id \in AllShards :
                 /\ id \in DOMAIN encoded
                 /\ Len(encoded[id]) = Len(args.in) \div SIZECEPH_ALGORITHM_ALIGNMENT

====
